---- MODULE Spec2Model ----
(***************************************************************************)
(* A model of src/src/Op.ts (pts: Num, Geom, Line, Rectangle).             *)
(*                                                                         *)
(* Op.ts is a library of static functions.  The state of the model is the  *)
(* last call (op, args), what it returned (ret) and, for the in-place      *)
(* transforms of Geom, the caller's group of points (pts) and the point    *)
(* object the transform last wrote to (tmp).                               *)
(*                                                                         *)
(* Numbers.  A JavaScript number is modelled as an exact rational <<n, d>> *)
(* in lowest terms with d > 0 (the rounding of IEEE doubles is not         *)
(* modelled); where the code only ever sees integers (Num.boundValue) the  *)
(* number is a TLA+ integer.  The JavaScript value undefined is << >>.     *)
(***************************************************************************)
EXTENDS Integers, Sequences, FiniteSets

VARIABLES op, args, ret, pts, tmp

vars == <<op, args, ret, pts, tmp>>

\* ------------------------------------------------------------------------
\* Bounds of the model
\* ------------------------------------------------------------------------

\* Line endpoints have integer coordinates in -1 .. MaxCoord.
MaxCoord == 2

LineCoords == (0 - 1) .. MaxCoord

\* ------------------------------------------------------------------------
\* Exact rational arithmetic (the arithmetic of JavaScript numbers)
\* ------------------------------------------------------------------------

Abs(x) == IF x < 0 THEN 0 - x ELSE x

RECURSIVE GCD(_, _)
GCD(a, b) == IF b = 0 THEN a ELSE GCD(b, a % b)

Norm(n, d) ==
  LET s == IF d < 0 THEN 0 - 1 ELSE 1
      g == GCD(Abs(n), Abs(d))
  IN  <<(s * n) \div g, (s * d) \div g>>

R(i) == <<i, 1>>

RAdd(a, b) == Norm(a[1] * b[2] + b[1] * a[2], a[2] * b[2])
RNeg(a) == <<0 - a[1], a[2]>>
RSub(a, b) == RAdd(a, RNeg(b))
RMul(a, b) == Norm(a[1] * b[1], a[2] * b[2])
RDiv(a, b) == Norm(a[1] * b[2], a[2] * b[1])
RLt(a, b) == a[1] * b[2] < b[1] * a[2]
RLe(a, b) == a[1] * b[2] <= b[1] * a[2]
RMin(a, b) == IF RLt(b, a) THEN b ELSE a
RMax(a, b) == IF RLt(a, b) THEN b ELSE a

Undefined == << >>

\* A point with integer coordinates, as the numbers the code sees.
RPt(x, y) == <<R(x), R(y)>>

\* ------------------------------------------------------------------------
\* Geom.withinBound, Line.intercept, Line.collinear
\* ------------------------------------------------------------------------

MinLen(a, b, c) ==
  LET m == IF Len(a) < Len(b) THEN Len(a) ELSE Len(b)
  IN  IF Len(c) < m THEN Len(c) ELSE m

withinBoundStrict(pt, boundPt1, boundPt2) ==
  \A i \in 1 .. MinLen(pt, boundPt1, boundPt2) :
    /\ RLt(RMin(boundPt1[i], boundPt2[i]), pt[i])
    /\ RLt(pt[i], RMax(boundPt1[i], boundPt2[i]))

withinBound(pt, boundPt1, boundPt2) ==
  \A i \in 1 .. MinLen(pt, boundPt1, boundPt2) :
    /\ RLe(RMin(boundPt1[i], boundPt2[i]), pt[i])
    /\ RLe(pt[i], RMax(boundPt1[i], boundPt2[i]))

\* { slope: m, yi: c, xi: ... } is <<m, c, xi>>; a vertical line gives undefined.
interceptSwapped(p1, p2) ==
  IF RSub(p2[1], p1[1]) = R(0)
    THEN Undefined
    ELSE LET m == RDiv(RSub(p2[2], p1[2]), RSub(p2[1], p1[1]))
             c == RSub(p1[1], RMul(m, p1[2]))
         IN  <<m, c, IF m = R(0) THEN Undefined ELSE RDiv(RNeg(c), m)>>

intercept(p1, p2) ==
  IF RSub(p2[1], p1[1]) = R(0)
    THEN Undefined
    ELSE LET m == RDiv(RSub(p2[2], p1[2]), RSub(p2[1], p1[1]))
             c == RSub(p1[2], RMul(m, p1[1]))
         IN  <<m, c, IF m = R(0) THEN Undefined ELSE RDiv(RNeg(c), m)>>

\* The z component of (p2 - p1) x (p1 - p3); x and y of the product are 0
\* for points of the plane.
collinear(p1, p2, p3) ==
  LET ax == RSub(p2[1], p1[1])
      ay == RSub(p2[2], p1[2])
      bx == RSub(p1[1], p3[1])
      by == RSub(p1[2], p3[2])
  IN  RSub(RMul(ax, by), RMul(ay, bx)) = R(0)

\* ------------------------------------------------------------------------
\* Line.intersectPath2D, Line.intersectLine2D
\* ------------------------------------------------------------------------

\* intersectPath2D with the sign of the slope term of a vertical la lost.
intersectPath2DSign(la, lb) ==
  LET a == intercept(la[1], la[2])
      b == intercept(lb[1], lb[2])
      pa == la[1]
      pb == lb[1]
  IN  IF a = Undefined
        THEN IF b = Undefined
               THEN Undefined
               ELSE LET y1 == RAdd(RMul(b[1], RSub(pb[1], pa[1])), pb[2])
                    IN  <<pa[1], y1>>
        ELSE IF b = Undefined
               THEN LET y1 == RAdd(RMul(RNeg(a[1]), RSub(pa[1], pb[1])), pa[2])
                    IN  <<pb[1], y1>>
               ELSE IF b[1] # a[1]
                      THEN LET px == RDiv(RSub(RAdd(RSub(RMul(a[1], pa[1]),
                                                         RMul(b[1], pb[1])),
                                                    pb[2]),
                                               pa[2]),
                                          RSub(a[1], b[1]))
                               py == RAdd(RMul(a[1], RSub(px, pa[1])), pa[2])
                           IN  <<px, py>>
                      ELSE IF a[2] = b[2]
                             THEN <<pa[1], pa[2]>>
                             ELSE Undefined

intersectPath2D(la, lb) ==
  LET a == intercept(la[1], la[2])
      b == intercept(lb[1], lb[2])
      pa == la[1]
      pb == lb[1]
  IN  IF a = Undefined
        THEN IF b = Undefined
               THEN Undefined
               ELSE LET y1 == RAdd(RMul(RNeg(b[1]), RSub(pb[1], pa[1])), pb[2])
                    IN  <<pa[1], y1>>
        ELSE IF b = Undefined
               THEN LET y1 == RAdd(RMul(RNeg(a[1]), RSub(pa[1], pb[1])), pa[2])
                    IN  <<pb[1], y1>>
               ELSE IF b[1] # a[1]
                      THEN LET px == RDiv(RSub(RAdd(RSub(RMul(a[1], pa[1]),
                                                         RMul(b[1], pb[1])),
                                                    pb[2]),
                                               pa[2]),
                                          RSub(a[1], b[1]))
                               py == RAdd(RMul(a[1], RSub(px, pa[1])), pa[2])
                           IN  <<px, py>>
                      ELSE IF a[2] = b[2]
                             THEN <<pa[1], pa[2]>>
                             ELSE Undefined

\* intersectLine2D that tests the bounds of la only.
intersectLine2DOnlyA(la, lb) ==
  LET pt == intersectPath2D(la, lb)
  IN  IF pt # Undefined /\ withinBound(pt, la[1], la[2]) THEN pt ELSE Undefined

intersectLine2D(la, lb) ==
  LET pt == intersectPath2D(la, lb)
  IN  IF pt # Undefined /\ withinBound(pt, la[1], la[2])
                        /\ withinBound(pt, lb[1], lb[2])
        THEN pt
        ELSE Undefined

\* ------------------------------------------------------------------------
\* Calls of the Line functions
\* ------------------------------------------------------------------------

Points2D == {RPt(x, y) : x \in LineCoords, y \in LineCoords}

\* A line or segment is a group of two points.
Lines == Points2D \X Points2D

\* No call has been made yet; the arguments of the call to come are drawn.
InitLine ==
  /\ op = "none"
  /\ args \in Lines \X Lines
  /\ ret = Undefined
  /\ pts = << >>
  /\ tmp = << >>

CallIntersectPath2D ==
  /\ op = "none"
  /\ op' = "intersectPath2D"
  /\ ret' = intersectPath2D(args[1], args[2])
  /\ UNCHANGED <<args, pts, tmp>>

CallIntersectLine2D ==
  /\ op = "none"
  /\ op' = "intersectLine2D"
  /\ ret' = intersectLine2D(args[1], args[2])
  /\ UNCHANGED <<args, pts, tmp>>

NextLine == CallIntersectPath2D \/ CallIntersectLine2D

SpecLine == InitLine /\ [][NextLine]_vars

\* ------------------------------------------------------------------------
\* Properties of Line.intersectPath2D and Line.intersectLine2D
\* ------------------------------------------------------------------------

\* The integer coordinates of the endpoints of a line of Lines.
X1(l) == l[1][1][1]
Y1(l) == l[1][2][1]
X2(l) == l[2][1][1]
Y2(l) == l[2][2][1]

Vertical(l) == X1(l) = X2(l)

Degenerate(l) == l[1] = l[2]

\* Equal slopes and equal y-intercepts of two non-vertical lines, by cross
\* multiplication: slope = dy / dx, y-intercept = (y1 * dx - dy * x1) / dx.
SameSlope(la, lb) ==
  (Y2(la) - Y1(la)) * (X2(lb) - X1(lb)) = (Y2(lb) - Y1(lb)) * (X2(la) - X1(la))

SameYIntercept(la, lb) ==
  (Y1(la) * (X2(la) - X1(la)) - (Y2(la) - Y1(la)) * X1(la)) * (X2(lb) - X1(lb))
    = (Y1(lb) * (X2(lb) - X1(lb)) - (Y2(lb) - Y1(lb)) * X1(lb)) * (X2(la) - X1(la))

Coincident(la, lb) ==
  ~Vertical(la) /\ ~Vertical(lb) /\ SameSlope(la, lb) /\ SameYIntercept(la, lb)

Parallel(la, lb) ==
  \/ Vertical(la) /\ Vertical(lb)
  \/ ~Vertical(la) /\ ~Vertical(lb) /\ SameSlope(la, lb)

\* p within the bounding rectangle of the endpoints of l, both ends included.
InRect(p, l) ==
  \A i \in 1 .. 2 :
    \/ RLe(l[1][i], p[i]) /\ RLe(p[i], l[2][i])
    \/ RLe(l[2][i], p[i]) /\ RLe(p[i], l[1][i])

\* The y of the non-vertical line l at the rational x.
YAt(l, x) ==
  RAdd(R(Y1(l)), RDiv(RMul(R(Y2(l) - Y1(l)), RSub(x, R(X1(l)))), R(X2(l) - X1(l))))

\* C1: intersectPath2D returns undefined exactly when both lines are
\* vertical (also with the same x) or neither is vertical, the slopes are
\* equal and the y-intercepts differ; for two coincident non-vertical lines
\* it returns la[0].
C1_PathUndefinedExactlyWhenParallel ==
  op = "intersectPath2D" =>
    LET la == args[1]
        lb == args[2]
    IN  /\ (ret = Undefined) <=>
              \/ Vertical(la) /\ Vertical(lb)
              \/ /\ ~Vertical(la) /\ ~Vertical(lb)
                 /\ SameSlope(la, lb) /\ ~SameYIntercept(la, lb)
        /\ Coincident(la, lb) => ret = la[1]

\* Two coincident non-vertical lines with different first points: la[0].
C1_Witness ==
  /\ op = "intersectPath2D"
  /\ args = <<(<<RPt(1, 0), RPt(2, 0)>>), (<<RPt(0, 0), RPt(1, 0)>>)>>
  /\ ret = RPt(1, 0)

\* C2: intersectLine2D returns the point of intersectPath2D when that point
\* lies within the bounding rectangles of both segments (ends included), and
\* undefined in every other case.
C2_LineIsPathWithinBothRects ==
  op = "intersectLine2D" =>
    LET la == args[1]
        lb == args[2]
        pt == intersectPath2D(la, lb)
    IN  ret = IF pt # Undefined /\ InRect(pt, la) /\ InRect(pt, lb)
                THEN pt
                ELSE Undefined

\* The diagonals of a square meet at its centre.
C2_Witness ==
  /\ op = "intersectLine2D"
  /\ args = <<(<<RPt(0, 0), RPt(2, 2)>>), (<<RPt(0, 2), RPt(2, 0)>>)>>
  /\ ret = RPt(1, 1)

\* C3 as stated: intersectLine2D(A, B) = intersectLine2D(B, A) for all
\* non-degenerate segments A and B.
C3_SymmetricForNonDegenerate ==
  (op = "intersectLine2D" /\ ~Degenerate(args[1]) /\ ~Degenerate(args[2])) =>
    ret = intersectLine2D(args[2], args[1])

\* C3 amended: intersectLine2D(A, B) = intersectLine2D(B, A) for all
\* non-degenerate segments A and B that do not lie on one non-vertical line;
\* when they do, intersectLine2D(A, B) is A[0] if A[0] is within the bounding
\* rectangle of B, and undefined otherwise.
C3_SymmetricUnlessCoincident ==
  (op = "intersectLine2D" /\ ~Degenerate(args[1]) /\ ~Degenerate(args[2])) =>
    LET la == args[1]
        lb == args[2]
    IN  IF Coincident(la, lb)
          THEN ret = IF InRect(la[1], lb) THEN la[1] ELSE Undefined
          ELSE ret = intersectLine2D(lb, la)

\* Two crossing segments, one of them vertical, that meet at a point with a
\* fractional coordinate.
C3_Witness ==
  /\ op = "intersectLine2D"
  /\ args = <<(<<RPt(1, 0 - 1), RPt(1, 2)>>), (<<RPt(0, 0), RPt(2, 1)>>)>>
  /\ ret = <<R(1), (<<1, 2>>)>>

\* C10: when the lines are not parallel, the point of intersectPath2D is
\* collinear with la[0], la[1] and with lb[0], lb[1]; when exactly one line
\* is vertical its x is that line's x and its y is the other line's y there.
C10_PathPointOnBothLines ==
  (op = "intersectPath2D" /\ ~Parallel(args[1], args[2])) =>
    LET la == args[1]
        lb == args[2]
    IN  /\ ret # Undefined
        /\ collinear(la[1], la[2], ret)
        /\ collinear(lb[1], lb[2], ret)
        /\ (Vertical(la) /\ ~Vertical(lb)) =>
              ret = <<R(X1(la)), YAt(lb, R(X1(la)))>>
        /\ (Vertical(lb) /\ ~Vertical(la)) =>
              ret = <<R(X1(lb)), YAt(la, R(X1(lb)))>>

\* A sloped la and a vertical lb that meet at (0, 1/3).
C10_Witness ==
  /\ op = "intersectPath2D"
  /\ args = <<(<<RPt(0 - 1, 0), RPt(2, 1)>>), (<<RPt(0, 2), RPt(0, 0)>>)>>
  /\ ret = <<R(0), (<<1, 3>>)>>

\* ------------------------------------------------------------------------
\* Num.boundValue, Geom.boundAngle
\* ------------------------------------------------------------------------

\* val, min and max of boundValue are integers in -MaxBound .. MaxBound.
MaxBound == 6

\* boundAngle is called with whole multiples of 45 degrees, up to MaxTurns
\* full turns either way.
MaxTurns == 2

\* JavaScript's %: the remainder has the sign of the dividend (n > 0).
JsRem(a, n) == IF a >= 0 THEN a % n ELSE 0 - ((0 - a) % n)

boundValue(val, min, max) ==
  LET len == Abs(max - min)
      a == JsRem(val, len)
  IN  IF a > max THEN a - len
      ELSE IF a < min THEN a + len
      ELSE a

boundAngle(angle) == boundValue(angle, 0, 360)

BoundValues == (0 - MaxBound) .. MaxBound

Angles == {k * 45 : k \in (0 - MaxTurns * 8) .. (MaxTurns * 8)}

InitBoundValue ==
  /\ op = "none"
  /\ args \in {<<val, min, max>> : val \in BoundValues \cup Angles,
                                   min \in BoundValues, max \in BoundValues}
  /\ ret = Undefined
  /\ pts = << >>
  /\ tmp = << >>

\* max = min makes the period 0 and the result NaN: not called here.
CallBoundValue ==
  /\ op = "none"
  /\ args[2] < args[3]
  /\ op' = "boundValue"
  /\ ret' = boundValue(args[1], args[2], args[3])
  /\ UNCHANGED <<args, pts, tmp>>

CallBoundAngle ==
  /\ op = "none"
  /\ args[1] \in Angles
  /\ op' = "boundAngle"
  /\ ret' = boundAngle(args[1])
  /\ UNCHANGED <<args, pts, tmp>>

NextBoundValue == CallBoundValue \/ CallBoundAngle

SpecBoundValue == InitBoundValue /\ [][NextBoundValue]_vars

\* C5: for min < max, boundValue(val, min, max) is within [min, max] and
\* differs from val by a whole multiple of the period max - min.
C5_BoundValueInRange ==
  op = "boundValue" =>
    /\ args[2] <= ret
    /\ ret <= args[3]
    /\ JsRem(ret - args[1], args[3] - args[2]) = 0

\* C6: for min < max, boundValue gives the same result for val and for val
\* plus any whole multiple of the period max - min.
C6_BoundValuePeriodic ==
  op = "boundValue" =>
    \A k \in (0 - MaxTurns) .. MaxTurns :
      boundValue(args[1] + k * (args[3] - args[2]), args[2], args[3]) = ret

\* ------------------------------------------------------------------------
\* Num.randomRange
\* ------------------------------------------------------------------------

\* Math.random() returns j / RandomSteps for a j in 0 .. RandomSteps - 1.
RandomSteps == 4

\* a and b of randomRange are integers in -MaxRange .. MaxRange.
MaxRange == 3

randomRange(a, b, random) ==
  LET r == IF a > b THEN a - b ELSE b - a
  IN  RAdd(R(a), RMul(random, R(r)))

Randoms == {Norm(j, RandomSteps) : j \in 0 .. (RandomSteps - 1)}

RangeValues == (0 - MaxRange) .. MaxRange

\* args[3] is what Math.random() will return.
InitRandomRange ==
  /\ op = "none"
  /\ args \in {<<a, b, random>> : a \in RangeValues, b \in RangeValues,
                                  random \in Randoms}
  /\ ret = Undefined
  /\ pts = << >>
  /\ tmp = << >>

CallRandomRange ==
  /\ op = "none"
  /\ op' = "randomRange"
  /\ ret' = randomRange(args[1], args[2], args[3])
  /\ UNCHANGED <<args, pts, tmp>>

\* randomRange( a ): b takes its default, 0.
CallRandomRangeDefault ==
  /\ op = "none"
  /\ args[2] = 0
  /\ op' = "randomRange1"
  /\ ret' = randomRange(args[1], 0, args[3])
  /\ UNCHANGED <<args, pts, tmp>>

NextRandomRange == CallRandomRange \/ CallRandomRangeDefault

SpecRandomRange == InitRandomRange /\ [][NextRandomRange]_vars

\* C7: the value of randomRange(a, b) is within [min(a, b), max(a, b)].
C7_RandomRangeWithinMinMax ==
  op \in {"randomRange", "randomRange1"} =>
    LET lo == IF args[1] < args[2] THEN args[1] ELSE args[2]
        hi == IF args[1] < args[2] THEN args[2] ELSE args[1]
    IN  RLe(R(lo), ret) /\ RLe(ret, R(hi))

\* ------------------------------------------------------------------------
\* Geom.boundingBox
\* ------------------------------------------------------------------------

\* boundingBox is given 1 .. MaxBoxPts points of two integer components in
\* -MaxBoxCoord .. MaxBoxCoord.
MaxBoxPts == 2

MaxBoxCoord == 2

\* Number.MAX_VALUE, the largest double: above every number of the model.
NumberMaxValue == <<1000000, 1>>

\* Number.MIN_VALUE, 2^-1074, the least positive double: a positive number
\* below every positive number of the model.
NumberMinValue == <<1, 1000000>>

\* Array.prototype.fill on a clone of p.
Fill(p, v) == [d \in 1 .. Len(p) |-> v]

\* The loop over d (lines 92-95) for the point p.
boundingBoxStep(box, p) ==
  <<[d \in 1 .. Len(box[1]) |->
       IF d <= Len(p) /\ RLt(p[d], box[1][d]) THEN p[d] ELSE box[1][d]],
    [d \in 1 .. Len(box[2]) |->
       IF d <= Len(p) /\ RLt(box[2][d], p[d]) THEN p[d] ELSE box[2][d]]>>

\* The loop over i (lines 91-96) from point i on.
RECURSIVE boundingBoxLoop(_, _, _)
boundingBoxLoop(group, i, box) ==
  IF i > Len(group)
    THEN box
    ELSE boundingBoxLoop(group, i + 1, boundingBoxStep(box, group[i]))

boundingBox(group) ==
  boundingBoxLoop(group, 1,
                  <<Fill(group[1], NumberMaxValue), Fill(group[1], NumberMinValue)>>)

BoxCoords == (0 - MaxBoxCoord) .. MaxBoxCoord

BoxPoints == {RPt(x, y) : x \in BoxCoords, y \in BoxCoords}

BoxGroups == UNION {[1 .. n -> BoxPoints] : n \in 1 .. MaxBoxPts}

InitBoundingBox ==
  /\ op = "none"
  /\ args \in BoxGroups
  /\ ret = Undefined
  /\ pts = << >>
  /\ tmp = << >>

CallBoundingBox ==
  /\ op = "none"
  /\ op' = "boundingBox"
  /\ ret' = boundingBox(args)
  /\ UNCHANGED <<args, pts, tmp>>

NextBoundingBox == CallBoundingBox

SpecBoundingBox == InitBoundingBox /\ [][NextBoundingBox]_vars

\* v is the least (the greatest) of component d over the points of group.
IsLeast(v, group, d) ==
  /\ \E i \in 1 .. Len(group) : group[i][d] = v
  /\ \A i \in 1 .. Len(group) : RLe(v, group[i][d])

IsGreatest(v, group, d) ==
  /\ \E i \in 1 .. Len(group) : group[i][d] = v
  /\ \A i \in 1 .. Len(group) : RLe(group[i][d], v)

\* C4: boundingBox(points) is [min, max] with min[d] the smallest and max[d]
\* the largest value of component d over the points, whatever their signs.
C4_BoxIsComponentwiseExtremum ==
  op = "boundingBox" =>
    /\ Len(ret) = 2
    /\ \A d \in 1 .. 2 :
         /\ IsLeast(ret[1][d], args, d)
         /\ IsGreatest(ret[2][d], args, d)

\* ------------------------------------------------------------------------
\* Rectangle.sides
\* ------------------------------------------------------------------------

\* The corners of a rectangle have integer coordinates in -1 .. MaxRect.
MaxRect == 3

\* sides with p1 and p3 exchanged.
sidesFromTop(rect) ==
  LET p0 == rect[1]
      p2 == rect[2]
      p1 == <<p2[1], p0[2]>>
      p3 == <<p0[1], p2[2]>>
  IN  <<(<<p0, p1>>), (<<p1, p2>>), (<<p2, p3>>), (<<p3, p0>>)>>

sides(rect) ==
  LET p0 == rect[1]
      p2 == rect[2]
      p1 == <<p0[1], p2[2]>>
      p3 == <<p2[1], p0[2]>>
  IN  <<(<<p0, p1>>), (<<p1, p2>>), (<<p2, p3>>), (<<p3, p0>>)>>

RectCoords == (0 - 1) .. MaxRect

\* [topLeft/min, bottomRight/max] of two-component points: y grows downwards.
Rects ==
  {<<(<<x0, y0>>), (<<x1, y1>>)>> :
     x0 \in RectCoords, y0 \in RectCoords, x1 \in RectCoords, y1 \in RectCoords}

InitSides ==
  /\ op = "none"
  /\ args \in {r \in Rects : r[1][1] < r[2][1] /\ r[1][2] < r[2][2]}
  /\ ret = Undefined
  /\ pts = << >>
  /\ tmp = << >>

CallSides ==
  /\ op = "none"
  /\ op' = "sides"
  /\ ret' = sides(args)
  /\ UNCHANGED <<args, pts, tmp>>

NextSides == CallSides

SpecSides == InitSides /\ [][NextSides]_vars

\* The segment joins the corners c1 and c2, in either direction.
Joins(seg, c1, c2) == seg = <<c1, c2>> \/ seg = <<c2, c1>>

\* Consecutive segments share an endpoint and the last ends where the first
\* starts.
Closed(segs) ==
  /\ \A i \in 1 .. (Len(segs) - 1) : segs[i][2] = segs[i + 1][1]
  /\ segs[Len(segs)][2] = segs[1][1]

\* C8 as stated: sides returns four segments in the order top, right, bottom,
\* left (min y, max x, max y, min x), each starting where the one before it
\* ends.
C8_SidesTopRightBottomLeft ==
  op = "sides" =>
    LET minX == args[1][1]  minY == args[1][2]
        maxX == args[2][1]  maxY == args[2][2]
    IN  /\ Len(ret) = 4
        /\ Joins(ret[1], <<minX, minY>>, <<maxX, minY>>)
        /\ Joins(ret[2], <<maxX, minY>>, <<maxX, maxY>>)
        /\ Joins(ret[3], <<maxX, maxY>>, <<minX, maxY>>)
        /\ Joins(ret[4], <<minX, maxY>>, <<minX, minY>>)
        /\ Closed(ret)

\* C8 amended: sides returns four segments in the order left, bottom, right,
\* top (min x, max y, max x, min y), each starting where the one before it
\* ends.
C8_SidesLeftBottomRightTop ==
  op = "sides" =>
    LET minX == args[1][1]  minY == args[1][2]
        maxX == args[2][1]  maxY == args[2][2]
    IN  /\ Len(ret) = 4
        /\ Joins(ret[1], <<minX, minY>>, <<minX, maxY>>)
        /\ Joins(ret[2], <<minX, maxY>>, <<maxX, maxY>>)
        /\ Joins(ret[3], <<maxX, maxY>>, <<maxX, minY>>)
        /\ Joins(ret[4], <<maxX, minY>>, <<minX, minY>>)
        /\ Closed(ret)

\* A rectangle wider than high, away from the origin.
C8_Witness ==
  /\ op = "sides"
  /\ args = <<(<<0 - 1, 0>>), (<<2, 1>>)>>
  /\ ret[1] = <<(<<0 - 1, 0>>), (<<0 - 1, 1>>)>>
  /\ ret[4] = <<(<<2, 0>>), (<<0 - 1, 0>>)>>

\* ------------------------------------------------------------------------
\* Geom.rotate2D, scale2D, shear2D, reflect2D
\* ------------------------------------------------------------------------

\* The caller's group holds 1 .. MaxGroup points of three integer components
\* in -MaxComp .. MaxComp.  (A single Pt is wrapped into a group of one.)
MaxGroup == 2

MaxComp == 1

\* Pt.to( q ): the first components of p are overwritten with those of q.
To(p, q) == [d \in 1 .. Len(p) |-> IF d <= Len(q) THEN q[d] ELSE p[d]]

\* Pt.$take( axis ): a new point of the components that axis names.
\* An axis string is the pair of the indices it names: "xy" is <<1, 2>>.
Take(p, axis) == [d \in 1 .. Len(axis) |-> p[axis[d]]]

\* Mat.transform2D( pt, m ) for the 3 x 2 matrix m: a new point.
transform2D(pt, m) ==
  <<pt[1] * m[1][1] + pt[2] * m[2][1] + m[3][1],
    pt[1] * m[1][2] + pt[2] * m[2][2] + m[3][2]>>

\* The ...At2DMatrix builders: m about the point at instead of the origin.
At2DMatrix(m, at) ==
  <<m[1], m[2],
    <<at[1] - (at[1] * m[1][1] + at[2] * m[2][1]),
      at[2] - (at[1] * m[1][2] + at[2] * m[2][2])>>>>

rotate2DMatrix(cos, sin) == <<(<<cos, sin>>), (<<0 - sin, cos>>), (<<0, 0>>)>>

scale2DMatrix(x, y) == <<(<<x, 0>>), (<<0, y>>), (<<0, 0>>)>>

shear2DMatrix(tanx, tany) == <<(<<1, tanx>>), (<<tany, 1>>), (<<0, 0>>)>>

\* Mat.reflectAt2DMatrix( p1, p2 ): the mirror image in the line through p1
\* and p2 (here a horizontal, vertical or diagonal line).
reflectAt2DMatrix(p1, p2) ==
  LET dx == p2[1] - p1[1]
      dy == p2[2] - p1[2]
      n == dx * dx + dy * dy
      a == (dx * dx - dy * dy) \div n
      b == (2 * dx * dy) \div n
  IN  At2DMatrix(<<(<<a, b>>), (<<b, 0 - a>>), (<<0, 0>>)>>, p1)

\* fn( ..., anchor ): the matrix of the call.
MatrixOf(m, anchor) == IF anchor # Undefined THEN At2DMatrix(m, anchor) ELSE m

\* One turn of the loop over the points: <<the passed point afterwards, the
\* point that $take made afterwards>>.  With an axis, p is the new point of
\* $take and p.to writes to it; without, p is the passed point itself.
transformPoint(pt, axis, m) ==
  IF axis # Undefined
    THEN LET p == Take(pt, axis)
         IN  <<pt, To(p, transform2D(p, m))>>
    ELSE <<To(pt, transform2D(pt, m)), Undefined>>

Comps == (0 - MaxComp) .. MaxComp

Points3D == {<<x, y, z>> : x \in Comps, y \in Comps, z \in Comps}

Groups == UNION {[1 .. n -> Points3D] : n \in 1 .. MaxGroup}

Axes == {Undefined, <<1, 2>>, <<2, 3>>, <<1, 3>>}

Anchors == {Undefined, <<1, 0, 0>>}

\* cos and sin of 0, 90, 180 and 270 degrees.
QuarterTurns == {<<1, 0>>, <<0, 1>>, <<0 - 1, 0>>, <<0, 0 - 1>>}

\* Scale factors; the tangents of -45, 0 and 45 degrees.
Factors == {0 - 1, 1, 2}

Tangents == {0 - 1, 0, 1}

MirrorPoints == {<<x, y>> : x \in 0 .. 1, y \in 0 .. 1}

InitTransform ==
  /\ op = "none"
  /\ args = << >>
  /\ ret = Undefined
  /\ pts \in Groups
  /\ tmp = << >>

\* The loop over the points of group with the matrix m: <<the passed points
\* afterwards, the points that $take made afterwards>>.
transformAll(group, axis, m) ==
  <<[i \in 1 .. Len(group) |-> transformPoint(group[i], axis, m)[1]],
    [i \in 1 .. Len(group) |-> transformPoint(group[i], axis, m)[2]]>>

rotate2D ==
  \E t \in QuarterTurns, anchor \in Anchors, axis \in Axes :
    LET cos == t[1]
        sin == t[2]
        m == MatrixOf(rotate2DMatrix(cos, sin), anchor)
    IN  /\ op = "none"
        /\ op' = "rotate2D"
        /\ args' = [before |-> pts, axis |-> axis, m |-> m]
        /\ pts' = transformAll(pts, axis, m)[1]
        /\ tmp' = transformAll(pts, axis, m)[2]
        /\ ret' = "Geom"

scale2D ==
  \E sx \in Factors, sy \in Factors, anchor \in Anchors, axis \in Axes :
    LET m == MatrixOf(scale2DMatrix(sx, sy), anchor)
    IN  /\ op = "none"
        /\ op' = "scale2D"
        /\ args' = [before |-> pts, axis |-> axis, m |-> m]
        /\ pts' = transformAll(pts, axis, m)[1]
        /\ tmp' = transformAll(pts, axis, m)[2]
        /\ ret' = "Geom"

shear2D ==
  \E tanx \in Tangents, tany \in Tangents, anchor \in Anchors, axis \in Axes :
    LET m == MatrixOf(shear2DMatrix(tanx, tany), anchor)
    IN  /\ op = "none"
        /\ op' = "shear2D"
        /\ args' = [before |-> pts, axis |-> axis, m |-> m]
        /\ pts' = transformAll(pts, axis, m)[1]
        /\ tmp' = transformAll(pts, axis, m)[2]
        /\ ret' = "Geom"

\* The line is drawn through two distinct points; no anchor is passed.
reflect2D ==
  \E line \in {l \in MirrorPoints \X MirrorPoints : l[1] # l[2]}, axis \in Axes :
    LET m == reflectAt2DMatrix(line[1], line[2])
    IN  /\ op = "none"
        /\ op' = "reflect2D"
        /\ args' = [before |-> pts, axis |-> axis, m |-> m]
        /\ pts' = transformAll(pts, axis, m)[1]
        /\ tmp' = transformAll(pts, axis, m)[2]
        /\ ret' = "Geom"

NextTransform == rotate2D \/ scale2D \/ shear2D \/ reflect2D

SpecTransform == InitTransform /\ [][NextTransform]_vars

\* C9: after rotate2D, scale2D, shear2D or reflect2D every passed point
\* holds its transformed coordinates; with an axis restriction the two named
\* components hold the transformed values and the others are unchanged.
C9_TransformOverwritesPassedPoints ==
  op \in {"rotate2D", "scale2D", "shear2D", "reflect2D"} =>
    \A i \in 1 .. Len(args.before) :
      LET b == args.before[i]
          axis == IF args.axis # Undefined THEN args.axis ELSE <<1, 2>>
          q == transform2D(<<b[axis[1]], b[axis[2]]>>, args.m)
      IN  /\ Len(pts) = Len(args.before)
          /\ pts[i][axis[1]] = q[1]
          /\ pts[i][axis[2]] = q[2]
          /\ \A d \in 1 .. 3 : d \notin {axis[1], axis[2]} => pts[i][d] = b[d]

====
